---- MODULE Spec2Model ----
(***************************************************************************)
(* Model of scripts/pick_and_place.py: the PickAndPlace sequencer (class    *)
(* PickAndPlace) and the scripted run of main().                            *)
(*                                                                          *)
(* Lengths and angles are integers in units of 1e-4 (0.15 m = 1500).        *)
(* The program is single threaded and every call blocks, so one action is   *)
(* one method of PickAndPlace (or one statement of main); the order of the  *)
(* calls a method makes on the IK service, the limb, the gripper and the    *)
(* error log is kept in the history variable calls.                         *)
(***************************************************************************)
EXTENDS Integers, Sequences, FiniteSets, TLC

(* ------------------------------ bounds --------------------------------- *)
\* longest first waypoint file (allPoses_1) considered
MaxPath == 2
\* longest second waypoint file (allPoses_2) considered
MaxPath2 == 1
\* largest number of home poses of a task considered by SpecHome
MaxHomes == 4

(* --------------------------- program constants ------------------------- *)
\* hover_distance = 0.15 (main) in units of 1e-4 m
hover_distance == 1500
\* resp.RESULT_INVALID and the seed codes of SolvePositionIKRequest
RESULT_INVALID == 0
SEED_USER == 1
SEED_CURRENT == 2
SEED_NS_MAP == 3

(* ------------------------------ Python values -------------------------- *)
\* A Python value held in joint_angles: the bool False or a dict, the dict
\* being a set of <<key, value>> pairs.
PyFalse == [t |-> "bool", d |-> {}]
PyDict(d) == [t |-> "dict", d |-> d]
PyNone == [t |-> "none", d |-> {}]

\* bool(v) as used by `if joint_angles:` and `if not start_angles:`
Truthy(v) == v.t = "dict" /\ v.d # {}

\* dict(zip(names, values)): zip stops at the shorter sequence
Min(a, b) == IF a < b THEN a ELSE b
DictZip(names, values) ==
    PyDict({ <<names[k], values[k]>> : k \in 1..Min(Len(names), Len(values)) })

(* ------------------------------ poses ---------------------------------- *)
Point(x, y, z) == [x |-> x, y |-> y, z |-> z]
Quaternion(x, y, z, w) == [x |-> x, y |-> y, z |-> z, w |-> w]
Pose(p, q) == [position |-> p, orientation |-> q]

overhead_orientation == Quaternion(-250, 9996, 74, 49)

block1_poses == << Pose(Point(7000, 1500, -1290), overhead_orientation),
                   Pose(Point(7000, 6400, -1290), overhead_orientation) >>
block2_poses == << Pose(Point(7000, 7600, -1290), overhead_orientation),
                   Pose(Point(6800, 466, -1290), overhead_orientation) >>

\* Line k of a waypoint file block<b>Poses.csv: the files are not part of the
\* sources, so their rows are distinct positions indexed by b and k.
WayPose(b, k) == Pose(Point(6000 + 100 * b, 1000 * k, 1000), overhead_orientation)
WayFile(b, n) == [k \in 1..n |-> WayPose(b, k)]

\* copy.deepcopy(pose) followed by position.z = position.z + hover_distance:
\* the pose sent to the solver by _approach and goTo
HoverCopy(pose) ==
    [pose EXCEPT !.position.z = pose.position.z + hover_distance]

\* The caller's pose object after _approach / goTo: the offset is applied to
\* the deep copy, so the argument keeps its value.
ArgAfterHoverAliased(pose) ==
    [pose EXCEPT !.position.z = pose.position.z + hover_distance]

ArgAfterHover(pose) == pose

\* the element p_ the for loop of pick hands to goTo in iteration k
LoopElementReversed(path, k) == path[Len(path) + 1 - k]

LoopElement(path, k) == path[k]

(* ------------------------------ the limb ------------------------------- *)
\* resp.joints[0].name of the left limb
JointNames == << "left_s0", "left_s1", "left_e0", "left_e1",
                 "left_w0", "left_w1", "left_w2" >>

starting_joint_angles ==
    PyDict({ <<"left_w0", 6700>>, <<"left_w1", 10300>>, <<"left_w2", -5000>>,
             <<"left_e0", -11900>>, <<"left_e1", 19400>>,
             <<"left_s0", -800>>, <<"left_s1", -10000>> })

\* The external solver and arm, as an exact seven-axis machine: joint k
\* carries coordinate k of the end-effector pose.
IKPositions(pose) ==
    << pose.position.x, pose.position.y, pose.position.z,
       pose.orientation.x, pose.orientation.y, pose.orientation.z,
       pose.orientation.w >>

Angle(d, name) == (CHOOSE pr \in d : pr[1] = name)[2]

\* limb.endpoint_pose() for the joint angles the limb is at
EndpointPose(joints) ==
    [position |-> Point(Angle(joints.d, "left_s0"), Angle(joints.d, "left_s1"),
                        Angle(joints.d, "left_e0")),
     orientation |-> Quaternion(Angle(joints.d, "left_e1"), Angle(joints.d, "left_w0"),
                                Angle(joints.d, "left_w1"), Angle(joints.d, "left_w2"))]

(* --------------------------- the IK service ---------------------------- *)
\* An outcome of self._iksvc(ikreq): the call raises, or returns a response
\* with result_type (bytes) and joints[0] (name, position).
Raised == [raised |-> TRUE, result_type |-> << >>, name |-> << >>, position |-> << >>]
Response(code, names, positions) ==
    [raised |-> FALSE, result_type |-> <<code>>, name |-> names, position |-> positions]

ServiceOutcomes(pose) ==
    { Raised, Response(RESULT_INVALID, << >>, << >>) }
    \cup { Response(c, JointNames, IKPositions(pose)) : c \in {SEED_USER, SEED_CURRENT, SEED_NS_MAP} }
    \cup { Response(SEED_CURRENT, << >>, << >>) }

\* struct.unpack('<%dB' % len(result_type), result_type): bytes to integers
Unpack(bytes) == [k \in 1..Len(bytes) |-> bytes[k] % 256]

(* ------------------------------ call log ------------------------------- *)
NoPose == Pose(Point(0, 0, 0), Quaternion(0, 0, 0, 0))
Call(op, pose, val) == [op |-> op, pose |-> pose, val |-> val]
Simple(op) == Call(op, NoPose, PyFalse)

\* PickAndPlace.ik_request(pose) for service outcome r: the value returned
\* and the entries it adds to the call log.
IkRequestRaiseDistinct(pose, r) ==
    IF r.raised
    THEN [ret |-> PyDict({}),
          log |-> << Call("ik_request", pose, PyDict({})), Simple("logerr: Service call failed") >>]
    ELSE IF Unpack(r.result_type)[1] # RESULT_INVALID
    THEN [ret |-> DictZip(r.name, r.position),
          log |-> << Call("ik_request", pose, DictZip(r.name, r.position)) >>]
    ELSE [ret |-> PyFalse,
          log |-> << Call("ik_request", pose, PyFalse), Simple("logerr: INVALID POSE") >>]

IkRequestOnlyCurrentSeed(pose, r) ==
    IF r.raised
    THEN [ret |-> PyFalse,
          log |-> << Call("ik_request", pose, PyFalse), Simple("logerr: Service call failed") >>]
    ELSE IF Unpack(r.result_type)[1] = SEED_CURRENT
    THEN [ret |-> DictZip(r.name, r.position),
          log |-> << Call("ik_request", pose, DictZip(r.name, r.position)) >>]
    ELSE [ret |-> PyFalse,
          log |-> << Call("ik_request", pose, PyFalse), Simple("logerr: INVALID POSE") >>]

ik_request(pose, r) ==
    IF r.raised
    THEN [ret |-> PyFalse,
          log |-> << Call("ik_request", pose, PyFalse), Simple("logerr: Service call failed") >>]
    ELSE IF Unpack(r.result_type)[1] # RESULT_INVALID
    THEN [ret |-> DictZip(r.name, r.position),
          log |-> << Call("ik_request", pose, DictZip(r.name, r.position)) >>]
    ELSE [ret |-> PyFalse,
          log |-> << Call("ik_request", pose, PyFalse), Simple("logerr: INVALID POSE") >>]

\* PickAndPlace._guarded_move_to_joint_position(joint_angles): the limb
\* joints afterwards and the entries added to the call log.
GuardedMoveAlways(limb_joints, joint_angles) ==
    [limb |-> joint_angles,
     log |-> << Call("move_to_joint_positions", NoPose, joint_angles) >>]

GuardedMoveUnlessFalse(limb_joints, joint_angles) ==
    IF joint_angles # PyFalse
    THEN [limb |-> joint_angles,
          log |-> << Call("move_to_joint_positions", NoPose, joint_angles) >>]
    ELSE [limb |-> limb_joints,
          log |-> << Simple("logerr: No Joint Angles provided") >>]

_guarded_move_to_joint_position(limb_joints, joint_angles) ==
    IF Truthy(joint_angles)
    THEN [limb |-> joint_angles,
          log |-> << Call("move_to_joint_positions", NoPose, joint_angles) >>]
    ELSE [limb |-> limb_joints,
          log |-> << Simple("logerr: No Joint Angles provided") >>]

(* ------------------------------ state ---------------------------------- *)
VARIABLES
    mpc,          \* main(): index of the next statement of MainBody
    op,           \* "main", or the running method: "pick" / "place"
    ip,           \* index of the next statement in the body of op
    i,            \* pick: index of the next element of posePath (for loop)
    pose,         \* argument pose of the running pick / place
    posePath,     \* argument posePath of the running pick
    idx1, idx2,   \* main(): home-pose index of each block
    allPoses_1, allPoses_2,   \* waypoints read from the two csv files
    limb,         \* joint angles the limb is at
    gripper,      \* "open" / "closed"
    joint_angles, \* value returned by the latest ik_request of the running method
    resp,         \* outcome of the latest IK service call of the running method
    calls,        \* calls made so far by the running (or last) method
    failed,       \* history: an approach / descend solve has returned False
    start_angles, \* argument of move_to_start
    exc,          \* "none", or the exception that ended the program
    homes, hidx, selected     \* SpecHome: a task's home poses, index, selections

vars == << mpc, op, ip, i, pose, posePath, idx1, idx2, allPoses_1, allPoses_2,
           limb, gripper, joint_angles, resp, calls, failed, start_angles, exc,
           homes, hidx, selected >>

homeVars == << homes, hidx, selected >>
startVars == << start_angles, exc >>
mainVars == << mpc, idx1, idx2, allPoses_1, allPoses_2 >>

\* the statements of main() from move_to_start on
MainBody == << "move_to_start", "pick1", "advance1", "place1",
               "pick2", "advance2", "place2", "return" >>

\* the statements of pick() and place()
PickBodyCloseFirst == << "gripper_open", "_approach", "gripper_close", "_servo_to_pose",
                         "_retract", "for" >>

PickBody == << "gripper_open", "_approach", "_servo_to_pose", "gripper_close",
               "_retract", "for" >>
PlaceBodyOpenFirst == << "gripper_open", "_approach", "_servo_to_pose", "_retract" >>

PlaceBodyNoRelease == << "_approach", "_servo_to_pose", "gripper_close", "_retract" >>

PlaceBody == << "_approach", "_servo_to_pose", "gripper_open", "_retract" >>
Body(o) == IF o = "pick" THEN PickBody ELSE IF o = "place" THEN PlaceBody ELSE << >>

At(stmt) == op \in {"pick", "place"} /\ ip <= Len(Body(op)) /\ Body(op)[ip] = stmt
Main(stmt) == op = "main" /\ mpc <= Len(MainBody) /\ MainBody[mpc] = stmt

\* The statement that follows a helper in pick / place; the helper's result
\* (joint_angles) is discarded by the caller.
AfterHelperAbort(o, k, ja) == IF ja = PyFalse THEN Len(Body(o)) + 1 ELSE k + 1

AfterHelperRetry(o, k, ja) == IF ja = PyFalse THEN k ELSE k + 1

AfterHelper(o, k, ja) == k + 1

\* The element of posePath the for loop of pick takes after element k of n;
\* the result of goTo is discarded.
NextWaypointBreak(k, ja, n) == IF ja = PyFalse THEN n + 1 ELSE k + 1

NextWaypoint(k, ja, n) == k + 1

\* idx = (idx + 1) % len(poses)
NextIndexStuck(idx, len) == IF idx + 1 < len THEN idx + 1 ELSE idx

NextIndexNone(idx, len) == idx % len

NextIndex(idx, len) == (idx + 1) % len

\* where the limb is before move_to_start: any non-empty joint dict
ZeroJoints == DictZip(JointNames, << 0, 0, 0, 0, 0, 0, 0 >>)

Init ==
    /\ mpc = 1 /\ op = "main" /\ ip = 1 /\ i = 1
    /\ pose = NoPose /\ posePath = << >>
    /\ idx1 = 0 /\ idx2 = 0
    /\ \E n \in 0..MaxPath : allPoses_1 = WayFile(1, n)
    /\ \E n \in 0..MaxPath2 : allPoses_2 = WayFile(2, n)
    /\ limb = ZeroJoints
    /\ gripper \in {"open", "closed"}
    /\ joint_angles = PyFalse /\ resp = Raised
    /\ calls = << >> /\ failed = FALSE
    /\ start_angles = starting_joint_angles /\ exc = "none"
    /\ homes = << >> /\ hidx = 0 /\ selected = << >>

(* ------------------------------ main() --------------------------------- *)
\* The attributes __init__ gives a PickAndPlace object.
Attributes == { "_limb_name", "_hover_distance", "_verbose", "_limb", "_gripper",
                "_iksvc", "_rs", "_init_state" }

\* pnp.move_to_start(start_angles); main() passes starting_joint_angles.
\* With falsy start_angles line 83 reads self._joint_names: when the object
\* has no such attribute the AttributeError ends the program before any call.
MoveToStart ==
    /\ Main("move_to_start")
    /\ IF ~Truthy(start_angles) /\ "_joint_names" \notin Attributes
       THEN /\ exc' = "AttributeError"
            /\ mpc' = Len(MainBody) + 1
            /\ calls' = << >>
            /\ UNCHANGED << limb, gripper >>
       ELSE LET angles == IF ~Truthy(start_angles) THEN ZeroJoints ELSE start_angles
                m == _guarded_move_to_joint_position(limb, angles)
            IN /\ limb' = m.limb
               /\ calls' = m.log \o << Simple("gripper.open") >>
               /\ gripper' = "open"
               /\ mpc' = mpc + 1
               /\ exc' = exc
    /\ UNCHANGED << op, ip, i, pose, posePath, idx1, idx2, allPoses_1, allPoses_2,
                    joint_angles, resp, failed, start_angles, homeVars >>

\* pnp.pick(block1_poses[idx1], allPoses_1) / pnp.pick(block2_poses[idx2], allPoses_2)
CallPick ==
    /\ \/ Main("pick1") /\ pose' = block1_poses[idx1 + 1] /\ posePath' = allPoses_1
       \/ Main("pick2") /\ pose' = block2_poses[idx2 + 1] /\ posePath' = allPoses_2
    /\ op' = "pick" /\ ip' = 1 /\ i' = 1 /\ calls' = << >>
    /\ joint_angles' = PyFalse /\ resp' = Raised
    /\ UNCHANGED << mainVars, limb, gripper, failed, homeVars, startVars >>

\* idx1 = (idx1+1) % len(block1_poses) / idx2 = (idx2+1) % len(block2_poses)
AdvanceIndex ==
    /\ \/ Main("advance1") /\ idx1' = NextIndex(idx1, Len(block1_poses)) /\ idx2' = idx2
       \/ Main("advance2") /\ idx2' = NextIndex(idx2, Len(block2_poses)) /\ idx1' = idx1
    /\ mpc' = mpc + 1
    /\ UNCHANGED << op, ip, i, pose, posePath, allPoses_1, allPoses_2, limb, gripper,
                    joint_angles, resp, calls, failed, homeVars, startVars >>

\* pnp.place(block1_poses[idx1]) / pnp.place(block2_poses[idx2])
CallPlace ==
    /\ \/ Main("place1") /\ pose' = block1_poses[idx1 + 1]
       \/ Main("place2") /\ pose' = block2_poses[idx2 + 1]
    /\ op' = "place" /\ ip' = 1 /\ i' = 1 /\ calls' = << >> /\ posePath' = << >>
    /\ joint_angles' = PyFalse /\ resp' = Raised
    /\ UNCHANGED << mainVars, limb, gripper, failed, homeVars, startVars >>

\* return 0
MainReturn ==
    /\ Main("return")
    /\ mpc' = mpc + 1
    /\ UNCHANGED << op, ip, i, pose, posePath, idx1, idx2, allPoses_1, allPoses_2,
                    limb, gripper, joint_angles, resp, calls, failed, homeVars, startVars >>

(* --------------------------- pick() and place() ------------------------ *)
frame == << mainVars, op, homeVars, startVars >>

\* self.gripper_open()
GripperOpen ==
    /\ At("gripper_open")
    /\ gripper' = "open"
    /\ calls' = Append(calls, Simple("gripper.open"))
    /\ ip' = ip + 1
    /\ UNCHANGED << frame, i, pose, posePath, limb, joint_angles, resp, failed >>

\* self.gripper_close()
GripperClose ==
    /\ At("gripper_close")
    /\ gripper' = "closed"
    /\ calls' = Append(calls, Simple("gripper.close"))
    /\ ip' = ip + 1
    /\ UNCHANGED << frame, i, pose, posePath, limb, joint_angles, resp, failed >>

\* ik_request(target) followed by _guarded_move_to_joint_position, for
\* service outcome r; pre is what the helper logged before the solve.
SolveAndMove(target, r, pre) ==
    LET s == ik_request(target, r)
        m == _guarded_move_to_joint_position(limb, s.ret)
    IN /\ resp' = r
       /\ joint_angles' = s.ret
       /\ limb' = m.limb
       /\ calls' = calls \o pre \o s.log \o m.log

\* self._approach(pose)
Approach ==
    /\ At("_approach")
    /\ \E r \in ServiceOutcomes(HoverCopy(pose)) :
          /\ SolveAndMove(HoverCopy(pose), r, << >>)
          /\ failed' = (failed \/ ik_request(HoverCopy(pose), r).ret = PyFalse)
          /\ ip' = AfterHelper(op, ip, ik_request(HoverCopy(pose), r).ret)
    /\ pose' = ArgAfterHover(pose)
    /\ UNCHANGED << frame, i, posePath, gripper >>

\* self._servo_to_pose(pose)
ServoToPose ==
    /\ At("_servo_to_pose")
    /\ \E r \in ServiceOutcomes(pose) :
          /\ SolveAndMove(pose, r, << >>)
          /\ failed' = (failed \/ ik_request(pose, r).ret = PyFalse)
          /\ ip' = AfterHelper(op, ip, ik_request(pose, r).ret)
    /\ UNCHANGED << frame, i, pose, posePath, gripper >>

\* the ik_pose built by _retract from current_pose
RetractPoseNoW(current_pose) ==
    [position |-> Point(current_pose.position.x, current_pose.position.y,
                        current_pose.position.z + hover_distance),
     orientation |-> Quaternion(current_pose.orientation.x, current_pose.orientation.y,
                                current_pose.orientation.z, 0)]

RetractPose(current_pose) ==
    [position |-> Point(current_pose.position.x, current_pose.position.y,
                        current_pose.position.z + hover_distance),
     orientation |-> Quaternion(current_pose.orientation.x, current_pose.orientation.y,
                                current_pose.orientation.z, current_pose.orientation.w)]

\* self._retract()
Retract ==
    /\ At("_retract")
    /\ LET current_pose == EndpointPose(limb)
           ik_pose == RetractPose(current_pose)
       IN \E r \in ServiceOutcomes(ik_pose) :
             /\ SolveAndMove(ik_pose, r, << Call("limb.endpoint_pose", current_pose, PyFalse) >>)
             /\ ip' = AfterHelper(op, ip, ik_request(ik_pose, r).ret)
    /\ UNCHANGED << frame, i, pose, posePath, gripper, failed >>

\* one iteration of `for p_ in posePath: self.goTo(p_)`
GoTo ==
    /\ At("for") /\ i <= Len(posePath)
    /\ LET p_ == LoopElement(posePath, i)
       IN \E r \in ServiceOutcomes(HoverCopy(p_)) :
             /\ SolveAndMove(HoverCopy(p_), r, << >>)
             /\ i' = NextWaypoint(i, ik_request(HoverCopy(p_), r).ret, Len(posePath))
    /\ posePath' = [posePath EXCEPT ![i] = ArgAfterHover(posePath[i])]
    /\ UNCHANGED << frame, ip, pose, gripper, failed >>

\* pick / place run off the end of their body and return to main()
ReturnedEarly == \/ ip > Len(Body(op))
                 \/ At("for")

Returned == \/ ip > Len(Body(op))
            \/ At("for") /\ i > Len(posePath)

Return ==
    /\ op \in {"pick", "place"} /\ Returned
    /\ op' = "main" /\ mpc' = mpc + 1
    /\ UNCHANGED << ip, i, pose, posePath, idx1, idx2, allPoses_1, allPoses_2,
                    limb, gripper, joint_angles, resp, calls, failed, homeVars, startVars >>

Next == \/ MoveToStart \/ CallPick \/ AdvanceIndex \/ CallPlace \/ MainReturn
        \/ GripperOpen \/ GripperClose \/ Approach \/ ServoToPose \/ Retract
        \/ GoTo \/ Return

Spec == Init /\ [][Next]_vars

TypeOK ==
    /\ mpc \in 1..(Len(MainBody) + 1)
    /\ op \in {"main", "pick", "place"}
    /\ idx1 \in 0..(Len(block1_poses) - 1) /\ idx2 \in 0..(Len(block2_poses) - 1)
    /\ gripper \in {"open", "closed"}
    /\ failed \in BOOLEAN

(* ------------------- the cyclic home-pose index alone ------------------ *)
\* candidate home poses of a task, pairwise distinct
HomePose(k) == Pose(Point(7000, 100 * k, -1290), overhead_orientation)

RECURSIVE DistinctSeqs(_, _)
\* the sequences of length n of pairwise distinct elements of S
DistinctSeqs(S, n) ==
    IF n = 0 THEN { << >> }
    ELSE UNION { { Append(q, e) : e \in S \ { q[k] : k \in 1..Len(q) } } :
                 q \in DistinctSeqs(S, n - 1) }

InitHome ==
    /\ mpc = 1 /\ op = "main" /\ ip = 1 /\ i = 1
    /\ pose = NoPose /\ posePath = << >>
    /\ idx1 = 0 /\ idx2 = 0
    /\ allPoses_1 = << >> /\ allPoses_2 = << >>
    /\ limb = ZeroJoints /\ gripper = "open"
    /\ joint_angles = PyFalse /\ resp = Raised
    /\ calls = << >> /\ failed = FALSE
    /\ start_angles = starting_joint_angles /\ exc = "none"
    /\ \E n \in 1..MaxHomes :
          homes \in DistinctSeqs({ HomePose(k) : k \in 1..MaxHomes }, n)
    /\ hidx = 0 /\ selected = << >>

\* use poses[idx], then idx = (idx+1) % len(poses), as main() does per block
SelectHome ==
    /\ Len(selected) <= 2 * Len(homes)
    /\ selected' = Append(selected, homes[hidx + 1])
    /\ hidx' = NextIndex(hidx, Len(homes))
    /\ UNCHANGED << mpc, op, ip, i, pose, posePath, idx1, idx2, allPoses_1, allPoses_2,
                    limb, gripper, joint_angles, resp, calls, failed, homes, startVars >>

NextHome == SelectHome

SpecHome == InitHome /\ [][NextHome]_vars

(* ------------- the main run under the scheduling of the program -------- *)
\* Every call blocks and returns, and the single thread runs on: a step that
\* is possible is eventually taken.
\* The first waypoint file has up to MaxPath rows, the second at most one.
InitFair ==
    /\ mpc = 1 /\ op = "main" /\ ip = 1 /\ i = 1
    /\ pose = NoPose /\ posePath = << >>
    /\ idx1 = 0 /\ idx2 = 0
    /\ \E n \in 0..MaxPath : allPoses_1 = WayFile(1, n)
    /\ \E n \in 0..Min(1, MaxPath) : allPoses_2 = WayFile(2, n)
    /\ limb = ZeroJoints
    /\ gripper \in {"open", "closed"}
    /\ joint_angles = PyFalse /\ resp = Raised
    /\ calls = << >> /\ failed = FALSE
    /\ start_angles = starting_joint_angles /\ exc = "none"
    /\ homes = << >> /\ hidx = 0 /\ selected = << >>

SpecFair == InitFair /\ [][Next]_vars /\ WF_vars(Next)

(* ------------------- move_to_start with any argument ------------------- *)
\* the run of main() with move_to_start given None, {} or the start angles
InitStart ==
    /\ mpc = 1 /\ op = "main" /\ ip = 1 /\ i = 1
    /\ pose = NoPose /\ posePath = << >>
    /\ idx1 = 0 /\ idx2 = 0
    /\ \E n \in 0..Min(1, MaxPath) : allPoses_1 = WayFile(1, n)
    /\ \E n \in 0..Min(1, MaxPath) : allPoses_2 = WayFile(2, n)
    /\ limb = starting_joint_angles
    /\ gripper \in {"open", "closed"}
    /\ joint_angles = PyFalse /\ resp = Raised
    /\ calls = << >> /\ failed = FALSE
    /\ start_angles \in {PyNone, PyDict({}), starting_joint_angles}
    /\ exc = "none"
    /\ homes = << >> /\ hidx = 0 /\ selected = << >>

SpecStart == InitStart /\ [][Next]_vars

(* ======================= properties of the call log ==================== *)
IsSolve(e) == e.op = "ik_request"
IsMove(e) == e.op = "move_to_joint_positions"
NoJointsLog == Simple("logerr: No Joint Angles provided")
ServiceLog == Simple("logerr: Service call failed")
InvalidLog == Simple("logerr: INVALID POSE")
IsLog(e) == e \in {NoJointsLog, ServiceLog, InvalidLog}
IsGripper(e) == e.op \in {"gripper.open", "gripper.close"}
EmptyDict == PyDict({})

\* the ik_request calls of the log, in order
Solves == SelectSeq(calls, IsSolve)
\* the log without error messages, and without error messages and moves
Commands == SelectSeq(calls, LAMBDA e : ~IsLog(e))
Skeleton == SelectSeq(calls, LAMBDA e : ~IsLog(e) /\ ~IsMove(e))
OpNames(q) == [k \in 1..Len(q) |-> q[k].op]

\* calls holds the calls of a pick / of a place (running or just returned)
InPick == op = "pick" \/ (op = "main" /\ mpc \in {3, 6})
InPlace == op = "place" \/ (op = "main" /\ mpc \in {5, 8, 9})
PickDone == (op = "pick" /\ Returned) \/ (op = "main" /\ mpc \in {3, 6})
PlaceDone == (op = "place" /\ Returned) \/ (op = "main" /\ mpc \in {5, 8, 9})

\* no move between call k and the next ik_request
NoMoveInPhase(k) ==
    \A j \in (k + 1)..Len(calls) :
        (\A m \in (k + 1)..j : ~IsSolve(calls[m])) => ~IsMove(calls[j])

PickSkeleton(n) ==
    << "gripper.open", "ik_request", "ik_request", "gripper.close",
       "limb.endpoint_pose", "ik_request" >> \o [k \in 1..n |-> "ik_request"]
PlaceSkeleton ==
    << "ik_request", "ik_request", "gripper.open", "limb.endpoint_pose", "ik_request" >>

(* C1: in pick and place, a failed ik_request (service raised or invalid    *)
(* result type) is followed by no move in its phase, and every move sent to *)
(* the limb carries the non-empty joints returned by the ik_request that    *)
(* immediately precedes it.                                                 *)
C1_NoMoveOnFailedSolve ==
    (InPick \/ InPlace) =>
        /\ \A k \in 1..Len(calls) :
              /\ IsMove(calls[k]) =>
                    /\ k > 1 /\ IsSolve(calls[k - 1])
                    /\ calls[k - 1].val = calls[k].val
                    /\ Truthy(calls[k].val)
              /\ (IsSolve(calls[k]) /\ calls[k].val = PyFalse) => NoMoveInPhase(k)
        /\ (Len(Solves) > 0 /\ (resp.raised \/ resp.result_type = <<RESULT_INVALID>>)) =>
              /\ joint_angles = PyFalse
              /\ ~IsMove(calls[Len(calls)])

C1_Witness ==
    /\ InPick /\ Len(Solves) >= 2
    /\ Solves[1].val = PyFalse /\ Truthy(Solves[2].val)
    /\ \E k \in 1..Len(calls) : IsMove(calls[k]) /\ calls[k].val = Solves[2].val

(* C2 as stated: after a failed Approach solve a pick issues nothing more   *)
(* (no solve, move or gripper command).                                     *)
C2_AbortAfterFailedApproach ==
    (InPick /\ Len(Solves) >= 1 /\ Solves[1].val = PyFalse) =>
        /\ Len(Commands) = 2
        /\ gripper = "open"

(* C2 amended: after a failed Approach solve a pick sends no move for the   *)
(* approach, and still issues the descend solve for the target pose, the    *)
(* gripper close, the retract and one solve per waypoint before returning.  *)
C2_PickContinuesAfterFailedApproach ==
    (PickDone /\ Len(Solves) >= 1 /\ Solves[1].val = PyFalse) =>
        /\ OpNames(Skeleton) = PickSkeleton(Len(posePath))
        /\ calls[3] = ServiceLog \/ calls[3] = InvalidLog
        /\ calls[4] = NoJointsLog
        /\ calls[5] = Call("ik_request", pose, Solves[2].val)
        /\ gripper = "closed"

C2_Witness ==
    /\ PickDone /\ Len(Solves) >= 4
    /\ Solves[1].val = PyFalse /\ Truthy(Solves[2].val) /\ Truthy(Solves[4].val)

(* C3 as stated: after a failed Approach or Descend solve a place never     *)
(* opens the gripper and performs no retract.                               *)
C3_PlaceAbortsOnFailedSolve ==
    (InPlace /\ \E k \in 1..Len(Solves) : k <= 2 /\ Solves[k].val = PyFalse) =>
        \A k \in 1..Len(calls) : calls[k].op \notin {"gripper.open", "limb.endpoint_pose"}

(* C3 amended: after a failed Approach or Descend solve a place sends no    *)
(* move for that phase and still opens the gripper and retracts before      *)
(* returning.                                                               *)
C3_PlaceContinuesAfterFailedSolve ==
    (PlaceDone /\ \E k \in 1..Len(Solves) : k <= 2 /\ Solves[k].val = PyFalse) =>
        /\ OpNames(Skeleton) = PlaceSkeleton
        /\ \A k \in 1..Len(calls) :
              (IsSolve(calls[k]) /\ calls[k].val = PyFalse) => NoMoveInPhase(k)
        /\ gripper = "open"

C3_Witness ==
    /\ PlaceDone /\ Len(Solves) = 3
    /\ Truthy(Solves[1].val) /\ Solves[2].val = PyFalse /\ Truthy(Solves[3].val)

(* C4 as stated: after a successful Approach and a failed Descend solve a   *)
(* pick never closes the gripper and neither retracts nor visits waypoints. *)
C4_NoGraspAfterFailedDescend ==
    (InPick /\ Len(Solves) >= 2 /\ Truthy(Solves[1].val) /\ Solves[2].val = PyFalse) =>
        /\ Len(Solves) = 2
        /\ \A k \in 1..Len(calls) : calls[k].op \notin {"gripper.close", "limb.endpoint_pose"}

(* C4 amended: after a successful Approach and a failed Descend solve a     *)
(* pick sends no descend move, and still closes the gripper, retracts from  *)
(* the live pose (the hover pose) and issues one solve per waypoint.        *)
C4_GraspAfterFailedDescend ==
    (PickDone /\ Len(Solves) >= 2 /\ Truthy(Solves[1].val) /\ Solves[2].val = PyFalse) =>
        /\ OpNames(Skeleton) = PickSkeleton(Len(posePath))
        /\ Skeleton[5].pose = HoverCopy(pose)
        /\ Len(SelectSeq(calls, IsMove)) <= 2 + Len(posePath)
        /\ gripper = "closed"

C4_Witness ==
    /\ PickDone /\ Len(Solves) >= 3
    /\ Truthy(Solves[1].val) /\ Solves[2].val = PyFalse /\ Truthy(Solves[3].val)
    /\ gripper = "closed"

\* the entries an action has just added to the call log
NewCalls ==
    IF Len(calls') >= Len(calls) /\ SubSeq(calls', 1, Len(calls)) = calls
    THEN { calls'[k] : k \in (Len(calls) + 1)..Len(calls') }
    ELSE { calls'[k] : k \in 1..Len(calls') }

(* C5 as stated: once an approach / descend solve has failed, no further    *)
(* limb move or gripper command is issued in the run.                       *)
C5_NoCommandAfterFailure ==
    [][failed => \A e \in NewCalls : ~IsMove(e) /\ ~IsGripper(e)]_vars

(* C5 amended: there is no Failed state; after a failed approach / descend  *)
(* solve the method that failed and every later pick / place of the run     *)
(* still issue all their solves and gripper commands, and every solve that  *)
(* succeeds is followed by its limb move.                                   *)
C5_ContinuesAfterFailure ==
    (failed /\ (PickDone \/ PlaceDone)) =>
        /\ OpNames(Skeleton) = IF InPick THEN PickSkeleton(Len(posePath)) ELSE PlaceSkeleton
        /\ \A k \in 1..Len(calls) :
              (IsSolve(calls[k]) /\ Truthy(calls[k].val)) =>
                  /\ k < Len(calls)
                  /\ calls[k + 1] = Call("move_to_joint_positions", NoPose, calls[k].val)

C5_Witness ==
    /\ failed /\ op = "main" /\ mpc = Len(MainBody) + 1
    /\ Len(Solves) = 3 /\ \A k \in 1..3 : Truthy(Solves[k].val)
    /\ Len(SelectSeq(calls, IsMove)) = 3 /\ gripper = "open"

AllSolved == \A k \in 1..Len(Solves) : Truthy(Solves[k].val)
IsPrefix(a, b) == Len(a) <= Len(b) /\ SubSeq(b, 1, Len(a)) = a

PickCallNames ==
    << "gripper.open", "ik_request", "move_to_joint_positions",
       "ik_request", "move_to_joint_positions", "gripper.close",
       "limb.endpoint_pose", "ik_request", "move_to_joint_positions" >>

(* C6: a pick with an empty waypoint path whose solves all return non-empty *)
(* joints makes exactly the calls open gripper, solve(target + hover),      *)
(* move, solve(target), move, close gripper, read the live pose,            *)
(* solve(live pose + hover), move, in this order, and then returns.         *)
C6_PickCallSequence ==
    (InPick /\ posePath = << >> /\ AllSolved) =>
        /\ IsPrefix(OpNames(calls), PickCallNames)
        /\ PickDone => OpNames(calls) = PickCallNames
        /\ Len(calls) >= 2 => calls[2].pose = HoverCopy(pose)
        /\ Len(calls) >= 4 => calls[4].pose = pose
        /\ Len(calls) >= 8 => calls[8].pose = HoverCopy(calls[7].pose)
        /\ \A k \in {3, 5, 9} : k <= Len(calls) => calls[k].val = calls[k - 1].val

C6_Witness ==
    /\ op = "main" /\ mpc = 3 /\ posePath = << >> /\ AllSolved
    /\ Len(calls) = 9 /\ gripper = "closed"

(* C7: in the waypoint loop of pick a failed solve sends no move for that   *)
(* waypoint, every waypoint of the path gets exactly one solve (for the     *)
(* waypoint raised by the hover distance) in path order whatever the        *)
(* earlier outcomes, and pick returns once all of them were tried.          *)
C7_WaypointSkip ==
    (InPick /\ Len(Solves) >= 3 /\ ip = Len(PickBody)) =>
        /\ i \in 1..(Len(posePath) + 1)
        /\ Len(Solves) = 3 + (i - 1)
        /\ \A j \in 1..(i - 1) : Solves[3 + j].pose = HoverCopy(posePath[j])
        /\ \A k \in 1..Len(calls) :
              (IsSolve(calls[k]) /\ calls[k].val = PyFalse) => NoMoveInPhase(k)
        /\ PickDone => i = Len(posePath) + 1

C7_Witness ==
    /\ op = "main" /\ mpc \in {3, 6} /\ Len(posePath) = 2 /\ Len(Solves) = 5
    /\ \A k \in 1..3 : Truthy(Solves[k].val)
    /\ Solves[4].val = PyFalse /\ Truthy(Solves[5].val)
    /\ calls[Len(calls)] = Call("move_to_joint_positions", NoPose, Solves[5].val)

InvalidResponse == Response(RESULT_INVALID, << >>, << >>)

(* C8 as stated: the value ik_request returns when the service call raises  *)
(* differs from the value it returns for the invalid result type.           *)
C8_ServiceErrorDistinct ==
    (Len(Solves) > 0 /\ resp.raised) =>
        joint_angles # ik_request(Solves[Len(Solves)].pose, InvalidResponse).ret

(* C8 amended: ik_request returns the same value, False, when the service   *)
(* call raises and when the solver reports the invalid result type; the two *)
(* cases differ only in the error message logged.                           *)
C8_ServiceErrorReturnsFalse ==
    (Len(Solves) > 0 /\ (resp.raised \/ resp.result_type = <<RESULT_INVALID>>)) =>
        /\ joint_angles = PyFalse
        /\ Solves[Len(Solves)].val = PyFalse
        /\ \E k \in 1..(Len(calls) - 1) :
              /\ IsSolve(calls[k]) /\ \A m \in (k + 1)..Len(calls) : ~IsSolve(calls[m])
              /\ calls[k + 1] = IF resp.raised THEN ServiceLog ELSE InvalidLog

C8_Witness ==
    /\ Len(Solves) >= 2 /\ resp.raised /\ joint_angles = PyFalse
    /\ Solves[1].val = PyFalse /\ calls[3] = InvalidLog

Count(q, Test(_)) == Len(SelectSeq(q, Test))

(* C9: a move asked with an empty joint dict sends nothing to the limb,     *)
(* logs the refusal and returns, and the pick / place goes on with its next *)
(* statement.                                                               *)
C9_EmptyMoveRefused ==
    /\ Truthy(limb)
    /\ \A k \in 1..Len(calls) :
          /\ IsMove(calls[k]) => calls[k].val # EmptyDict
          /\ (IsSolve(calls[k]) /\ calls[k].val = EmptyDict) =>
                /\ k < Len(calls)
                /\ calls[k + 1] = NoJointsLog
    /\ (op \in {"pick", "place"} /\ \E k \in 1..Len(Solves) : Solves[k].val = EmptyDict) =>
          ip = 1 + Count(calls, IsGripper) + Min(Len(Solves), 3)

C9_Witness ==
    /\ PickDone /\ Len(Solves) >= 3 /\ gripper = "closed"
    /\ Solves[1].val = EmptyDict /\ Truthy(Solves[2].val) /\ Solves[3].val = EmptyDict

(* C10: the home-pose index stays in [0, len) and advances by one modulo    *)
(* len: the first n selections of a task with n home poses are its n poses, *)
(* each once, and selection k + n is the same pose as selection k.          *)
C10_CyclicHomeIndex ==
    LET n == Len(homes) IN
    n >= 1 =>
        /\ hidx \in 0..(n - 1)
        /\ hidx = Len(selected) % n
        /\ Len(selected) >= n =>
              /\ { selected[k] : k \in 1..n } = { homes[k] : k \in 1..n }
              /\ Cardinality({ selected[k] : k \in 1..n }) = n
        /\ \A k \in 1..Len(selected) :
              /\ k + n <= Len(selected) => selected[k + n] = selected[k]
              /\ selected[k] = homes[((k - 1) % n) + 1]

C10_Witness ==
    /\ Len(homes) >= 2 /\ Len(selected) = Len(homes) + 1
    /\ selected[Len(selected)] = selected[1] /\ hidx = 1

\* the block main() is handling, the pose it passed to the running (or last)
\* pick / place, and that block's waypoint file
Block == IF mpc < 5 \/ (mpc = 5 /\ op = "main") THEN 1 ELSE 2
CallerPose == IF Block = 1 THEN block1_poses[idx1 + 1] ELSE block2_poses[idx2 + 1]
CallerPath == IF Block = 1 THEN allPoses_1 ELSE allPoses_2

\* q is p raised by the hover distance and otherwise equal to p
Raises(p, q) ==
    /\ q.position.z = p.position.z + hover_distance
    /\ q.position.x = p.position.x /\ q.position.y = p.position.y
    /\ q.orientation = p.orientation

(* C11: _approach and goTo solve for the input pose with z raised by the    *)
(* hover distance and x, y, orientation unchanged, and leave the caller's   *)
(* pose as it was: the descend solve is for exactly the pose main() passed. *)
C11_HoverKeepsInput ==
    (InPick \/ InPlace) =>
        /\ pose = CallerPose
        /\ InPick => posePath = CallerPath
        /\ Len(Solves) >= 1 => Raises(CallerPose, Solves[1].pose)
        /\ Len(Solves) >= 2 => Solves[2].pose = CallerPose
        /\ \A j \in 1..(Len(Solves) - 3) : Raises(CallerPath[j], Solves[3 + j].pose)

C11_Witness ==
    /\ PickDone /\ Len(posePath) = 2 /\ Len(Solves) = 5
    /\ Solves[2].pose = CallerPose /\ Solves[2].pose.position.z = -1290
    /\ Solves[1].pose.position.z = 210

\* the number of ik_request calls made when pick / place is at statement k
\* and, in the loop of pick, at element n of the path
SolvesDue(o, k, n) ==
    IF o = "pick"
    THEN (IF k <= 2 THEN 0 ELSE IF k = 3 THEN 1 ELSE IF k <= 5 THEN 2 ELSE 3 + (n - 1))
    ELSE (IF k = 1 THEN 0 ELSE IF k = 2 THEN 1 ELSE IF k <= 4 THEN 2 ELSE 3)

(* C12: nothing is retried: whatever the solver outcomes, each phase of a   *)
(* pick / place has issued exactly one ik_request when it is over, and at   *)
(* most one limb move follows each ik_request.                              *)
C12_NoRetry ==
    (op \in {"pick", "place"}) =>
        /\ Len(Solves) = SolvesDue(op, ip, i)
        /\ Len(Solves) <= 3 + Len(posePath)
        /\ Count(calls, IsMove) <= Len(Solves)
        /\ \A j, k \in 1..Len(calls) :
              (j < k /\ IsMove(calls[j]) /\ IsMove(calls[k])) =>
                  \E m \in (j + 1)..(k - 1) : IsSolve(calls[m])

C12_Witness ==
    /\ op = "pick" /\ Returned /\ Len(posePath) = 2 /\ Len(Solves) = 5
    /\ Solves[1].val = PyFalse /\ Solves[3].val = EmptyDict /\ Solves[5].val = PyFalse
    /\ Count(calls, IsMove) = 2

\* the number of ik_request calls among the first k calls
SolveNo(k) == Count(SubSeq(calls, 1, k), IsSolve)

(* C13: pick solves for the waypoints of posePath in list order, each once  *)
(* and raised by the hover distance, only after the retract phase is over,  *)
(* and the move (or refusal) of a waypoint is made before the next solve.   *)
C13_WaypointOrder ==
    InPick =>
        /\ \A k \in 1..Len(calls) :
              (IsSolve(calls[k]) /\ SolveNo(k) > 3) =>
                  /\ calls[k].pose = HoverCopy(CallerPath[SolveNo(k) - 3])
                  /\ \E m \in 1..(k - 1) : calls[m].op = "limb.endpoint_pose"
                  /\ IsMove(calls[k - 1]) \/ calls[k - 1] = NoJointsLog
        /\ PickDone => Len(Solves) = 3 + Len(CallerPath)

C13_Witness ==
    /\ PickDone /\ Len(posePath) = 2 /\ Len(Solves) = 5 /\ AllSolved
    /\ Solves[4].pose = HoverCopy(posePath[1]) /\ Solves[5].pose = HoverCopy(posePath[2])
    /\ Solves[4].pose # Solves[5].pose

PlaceCallNames ==
    << "ik_request", "move_to_joint_positions", "ik_request", "move_to_joint_positions",
       "gripper.open", "limb.endpoint_pose", "ik_request", "move_to_joint_positions" >>

(* C14: a place whose solves all return non-empty joints makes exactly the  *)
(* calls solve(target + hover), move, solve(target), move, open gripper,    *)
(* read the live pose, solve(live pose + hover), move, and then returns.    *)
C14_PlaceCallSequence ==
    (InPlace /\ AllSolved) =>
        /\ IsPrefix(OpNames(calls), PlaceCallNames)
        /\ PlaceDone => OpNames(calls) = PlaceCallNames
        /\ Len(calls) >= 1 => calls[1].pose = HoverCopy(pose)
        /\ Len(calls) >= 3 => calls[3].pose = pose
        /\ Len(calls) >= 7 => calls[7].pose = HoverCopy(calls[6].pose)
        /\ \A k \in {2, 4, 8} : k <= Len(calls) => calls[k].val = calls[k - 1].val
        /\ Len(calls) < 5 => gripper = "closed"

C14_Witness ==
    /\ op = "main" /\ mpc = 5 /\ AllSolved /\ Len(calls) = 8 /\ gripper = "open"

IsRead(e) == e.op = "limb.endpoint_pose"

(* C15: the retract reads the live end-effector pose once, right after the  *)
(* gripper action and right before its solve, and solves for that pose with *)
(* z raised by the hover distance and x, y, orientation copied; the pose is *)
(* where the limb last moved to, not the target of the pick / place.        *)
C15_RetractFromLivePose ==
    (InPick \/ InPlace) =>
        /\ Count(calls, IsRead) <= 1
        /\ \A k \in 1..Len(calls) :
              IsRead(calls[k]) =>
                  /\ k > 1 /\ IsGripper(calls[k - 1])
                  /\ k < Len(calls) /\ IsSolve(calls[k + 1])
                  /\ Raises(calls[k].pose, calls[k + 1].pose)
                  /\ \A m \in 1..(k - 1) :
                        (IsMove(calls[m]) /\ \A n \in (m + 1)..(k - 1) : ~IsMove(calls[n])) =>
                            IKPositions(calls[k].pose) =
                                [j \in 1..7 |-> Angle(calls[m].val.d, JointNames[j])]
        /\ (Len(Solves) >= 3 /\ Truthy(Solves[1].val) /\ ~Truthy(Solves[2].val)) =>
              Solves[3].pose = HoverCopy(HoverCopy(pose))

C15_Witness ==
    /\ InPick /\ Len(Solves) >= 3
    /\ Truthy(Solves[1].val) /\ Solves[2].val = PyFalse
    /\ Solves[3].pose = HoverCopy(HoverCopy(pose)) /\ Solves[3].pose # HoverCopy(pose)

(* C16: for a response of the service, ik_request returns False exactly     *)
(* when the first result-type code is the invalid code, and for the codes   *)
(* of the three seed kinds returns the joint name -> angle dict of the      *)
(* response.                                                                *)
C16_UnreachableIffInvalid ==
    (Len(Solves) > 0 /\ ~resp.raised) =>
        /\ (resp.result_type[1] = RESULT_INVALID) <=> (joint_angles = PyFalse)
        /\ resp.result_type[1] \in {SEED_USER, SEED_CURRENT, SEED_NS_MAP} =>
              /\ joint_angles.t = "dict"
              /\ joint_angles.d = { <<resp.name[k], resp.position[k]>> : k \in 1..Len(resp.name) }
              /\ Solves[Len(Solves)].val = joint_angles

C16_Witness ==
    /\ Len(Solves) >= 2 /\ resp.result_type = <<SEED_NS_MAP>> /\ Truthy(joint_angles)
    /\ Solves[1].val = PyFalse /\ calls[2] = InvalidLog

(* C17: pick and place always return, whatever the solver outcomes: a pick  *)
(* has then made 3 + k ik_request calls for its k waypoints, a place 3.     *)
C17_PickPlaceTerminate ==
    /\ [](PickDone => Len(Solves) = 3 + Len(posePath))
    /\ [](PlaceDone => Len(Solves) = 3)
    /\ (op = "pick") ~> (op = "main" /\ mpc \in {3, 6})
    /\ (op = "place") ~> (op = "main" /\ mpc \in {5, 8})

C17_Witness ==
    /\ op = "main" /\ mpc = 3 /\ Len(posePath) = 2 /\ Len(Solves) = 5
    /\ Solves[1].val = PyFalse /\ Solves[4].val = EmptyDict /\ resp.raised

(* C18: over the main run the gripper is closed only when it is open and    *)
(* after an open of the same pick, a close leaves it closed until the next  *)
(* open, and the run ends with the gripper open.                            *)
C18_GripperAlternates ==
    [][ /\ Simple("gripper.close") \in NewCalls =>
              /\ gripper = "open" /\ gripper' = "closed"
              /\ InPick /\ \E k \in 1..Len(calls) : calls[k] = Simple("gripper.open")
        /\ Simple("gripper.open") \in NewCalls => gripper' = "open"
        /\ (\A e \in NewCalls : ~IsGripper(e)) => gripper' = gripper
        /\ mpc' = Len(MainBody) + 1 => gripper' = "open" ]_vars

C18_Witness ==
    /\ op = "main" /\ mpc = Len(MainBody) + 1 /\ failed /\ gripper = "open"
    /\ Len(Solves) = 3 /\ \A k \in 1..3 : Solves[k].val = PyFalse

(* C19: in the main run each block is picked at its index 0 and placed at   *)
(* the next index (index + 1 modulo the number of home poses), advanced     *)
(* between the pick and the place; the other block's index is untouched,    *)
(* and the place pose differs from the pick pose.                           *)
C19_PlaceAtNextHome ==
    /\ (op = "pick" /\ mpc = 2) =>
          idx1 = 0 /\ idx2 = 0 /\ pose = block1_poses[1]
    /\ (op = "place" /\ mpc = 4) =>
          /\ idx1 = 1 % Len(block1_poses) /\ idx2 = 0
          /\ pose = block1_poses[idx1 + 1] /\ pose # block1_poses[1]
    /\ (op = "pick" /\ mpc = 5) =>
          idx1 = 1 % Len(block1_poses) /\ idx2 = 0 /\ pose = block2_poses[1]
    /\ (op = "place" /\ mpc = 7) =>
          /\ idx2 = 1 % Len(block2_poses) /\ idx1 = 1 % Len(block1_poses)
          /\ pose = block2_poses[idx2 + 1] /\ pose # block2_poses[1]

C19_Witness ==
    /\ op = "place" /\ mpc = 7 /\ idx1 = 1 /\ idx2 = 1
    /\ pose = block2_poses[2] /\ Len(Solves) = 3

(* C20: move_to_start called with None or an empty dict completes without   *)
(* error, having commanded the seven joints to angle 0 and opened the       *)
(* gripper.                                                                 *)
C20_StartWithoutAngles ==
    (~Truthy(start_angles) /\ mpc > 1) =>
        /\ exc = "none"
        /\ (op = "main" /\ mpc = 2) =>
              /\ calls = << Call("move_to_joint_positions", NoPose, ZeroJoints),
                            Simple("gripper.open") >>
              /\ limb = ZeroJoints /\ gripper = "open"
====
